---- MODULE Spec2Model ----
(***************************************************************************)
(* Model of the aggregation and projection code of app_financas4.py:       *)
(* the current-month summary, the monthly trend, the category / payer /    *)
(* bank breakdowns and the cash-flow projection, computed over the         *)
(* DataFrame get_transactions returns for one user; and of its storage     *)
(* code: the functions that write the worksheets 'transacoes' and 'goals', *)
(* the entry form, the save of the transactions table and the progress     *)
(* column of the goals table.                                              *)
(*                                                                         *)
(* Amounts are integers (currency units); an income paid in n instalments  *)
(* has an amount that n divides, so that \div is Python's float division   *)
(* without rounding.                                                       *)
(* A calendar date is a record [y, m, d]; NaT is pandas' missing date      *)
(* (what pd.to_datetime(errors='coerce') yields for an unparseable cell).  *)
(* A "%Y-%m" month key is the pair <<y, m>>.                               *)
(***************************************************************************)
EXTENDS Integers, Sequences, FiniteSets

VARIABLES
    now,                      \* datetime.now(): [y, m, d, t], t = 0 at midnight sharp, 1 later in the day
    df_all_transactions,      \* the rows get_transactions(username) returned
    pc,                       \* position of the page being rendered
    idx,                      \* rows of df_all_transactions the projection loop has completed
    projection_data,          \* dict of the projection, in insertion order
    gastos_por_categoria,     \* paid expenses by category
    receitas_por_responsavel, \* income by payer
    receitas_por_banco,       \* income by bank
    summary,                  \* what get_summary_current_month returned
    monthly_summary,          \* the trend table of the overview page
    transactions_sheet,       \* rows of the worksheet 'transacoes' below its header
    goals_sheet,              \* rows of the worksheet 'goals' below its header
    call,                     \* the last call of a storage function: name, caller, whose row its id named, result
                              \* (and, of update_transaction, the columns its changes named)
    created,                  \* ids add_transaction has assigned so far
    goals_df,                 \* the goals table of the page, with its progress column
    users_sheet,              \* rows of the worksheet 'users' below its header
    session_state,            \* st.session_state of the browser session: logged_in, username
    inflight,                 \* per session, the add call that has read its sheet and not yet appended
    previous                  \* what the page showed before the script was run again; <<>> on the first run

pageVars == <<now, df_all_transactions, pc, idx, projection_data, gastos_por_categoria,
              receitas_por_responsavel, receitas_por_banco, summary, monthly_summary>>

storeVars == <<transactions_sheet, goals_sheet, call, created, goals_df>>

sessionVars == <<users_sheet, session_state, inflight, previous>>

vars == <<pageVars, storeVars, sessionVars>>

\* No storage function has been called and no goal table drawn.
NoCall == [op |-> "none", username |-> "", target |-> "", ret |-> FALSE]

\* The browser sessions that use the application at the same time.
Sessions == {1, 2}

\* An add call that is not running.
NoRead == [op |-> "none", username |-> "", next_id |-> 0]

\* lines 1099-1102: nobody is logged in; no user is registered and no add
\* call is under way
SessionFresh ==
    /\ users_sheet = <<>>
    /\ session_state = [logged_in |-> FALSE, username |-> "None"]
    /\ inflight = [s \in Sessions |-> NoRead]
    /\ previous = <<>>

StoreUntouched ==
    /\ transactions_sheet = <<>>
    /\ goals_sheet = <<>>
    /\ call = NoCall
    /\ created = {}
    /\ goals_df = <<>>
    /\ SessionFresh

----------------------------------------------------------------------------
(* Calendar *)

NaT == [y |-> 0, m |-> 0, d |-> 0]

MkDate(y, m, d) == [y |-> y, m |-> m, d |-> d]

IsLeap(y) == (y % 4 = 0 /\ y % 100 # 0) \/ y % 400 = 0

DaysInMonth(y, m) ==
    IF m = 2 THEN (IF IsLeap(y) THEN 29 ELSE 28)
    ELSE IF m \in {4, 6, 9, 11} THEN 30 ELSE 31

Min(a, b) == IF a <= b THEN a ELSE b

\* A month shift that lets the day run over into the following month
\* (31 January + 1 month = 2 March) instead of clamping it.
AddMonthsOverflow(date, n) ==
    LET total == date.y * 12 + (date.m - 1) + n
        yy    == total \div 12
        mm    == (total % 12) + 1
        dim   == DaysInMonth(yy, mm)
    IN  IF date.d <= dim THEN MkDate(yy, mm, date.d)
        ELSE MkDate((total + 1) \div 12, ((total + 1) % 12) + 1, date.d - dim)

\* date + pd.DateOffset(months=n): the month is shifted and the day is
\* clamped to the last day of the resulting month.
AddMonths(date, n) ==
    LET total == date.y * 12 + (date.m - 1) + n
        yy    == total \div 12
        mm    == (total % 12) + 1
    IN  MkDate(yy, mm, Min(date.d, DaysInMonth(yy, mm)))

\* a < b on calendar dates
DateLT(a, b) ==
    \/ a.y < b.y
    \/ a.y = b.y /\ a.m < b.m
    \/ a.y = b.y /\ a.m = b.m /\ a.d < b.d

DateLE(a, b) == a = b \/ DateLT(a, b)

\* date.strftime("%Y-%m")
MonthKey(date) == <<date.y, date.m>>

\* datetime.now().date()
Today == MkDate(now.y, now.m, now.d)

\* datetime.now().date().replace(day=1)
FirstOfMonth(date) == MkDate(date.y, date.m, 1)

----------------------------------------------------------------------------
(* Bounds and input domain *)

MaxTx == 2

\* range(4) of the projection: the current month and the next three
ProjectionMonths == 4

\* pd.DateOffset(months=12) of the trend window
TrendMonths == 12

RECURSIVE SeqsUpTo(_, _)
SeqsUpTo(S, n) ==
    IF n = 0 THEN {<<>>}
    ELSE LET shorter == SeqsUpTo(S, n - 1)
         IN  shorter \cup {Append(s, x) : s \in {t \in shorter : Len(t) = n - 1}, x \in S}

Row(tipo, data, valor, categoria, status, responsavel, banco, forma, datas, recorrente, vezes) ==
    [Tipo |-> tipo, Data |-> data, Valor |-> valor, Categoria |-> categoria,
     Status |-> status, Responsavel |-> responsavel, Banco |-> banco,
     FormaRecebimento |-> forma, DatasParcelasReceita |-> datas,
     Recorrente |-> recorrente, VezesRecorrencia |-> vezes]

Receita(data, valor, responsavel, banco, forma, datas) ==
    Row("receita", data, valor, "Salário", "", responsavel, banco, forma, datas, "", 0)

Despesa(data, valor, categoria, status, recorrente, vezes) ==
    Row("despesa", data, valor, categoria, status, "", "", "", <<>>, recorrente, vezes)

D(y, m, d) == MkDate(y, m, d)

\* Instants at which the pages are rendered.
AnalysisNows ==
    { [y |-> 2024, m |-> 1, d |-> 20, t |-> 1],
      [y |-> 2024, m |-> 11, d |-> 30, t |-> 1] }

\* Rows that exercise the projection: expenses of every status in and out
\* of the projected months, recurring expenses, a row without a date, and
\* incomes paid at once or in instalments.
ProjRows ==
    { Despesa(dt, 60, "Lazer", st, "Não", 0) :
          dt \in {D(2024, 1, 10), D(2024, 2, 5), D(2024, 12, 5)},
          st \in {"A Pagar", "Pago", ""} }
    \cup
    { Despesa(D(2023, 12, 15), 120, "Moradia", "Pago", "Não", 0),
      Despesa(D(2023, 12, 15), 120, "Moradia", "A Pagar", "Não", 0),
      Despesa(D(2024, 1, 10), 100, "Moradia", "Pago", "Sim", 1),
      Despesa(D(2024, 1, 10), 100, "Moradia", "Pago", "Sim", 3),
      Despesa(D(2024, 1, 10), 100, "Moradia", "Pago", "Não", 3),
      Despesa(NaT, 60, "Lazer", "A Pagar", "Não", 0),
      Receita(D(2024, 1, 10), 60, "ana", "nubank", "Parcela Única", <<>>),
      Receita(D(2023, 12, 15), 120, "ana", "nubank", "Parcela Única", <<>>),
      Receita(D(2024, 12, 5), 60, "ana", "nubank", "Parcela Única", <<>>),
      Receita(D(2024, 1, 15), 300, "ana", "nubank", "3x",
              <<D(2024, 2, 1), D(2024, 3, 1), D(2024, 4, 1)>>),
      Receita(D(2024, 1, 10), 120, "ana", "nubank", "2x",
              <<D(2024, 1, 10), D(2024, 2, 10)>>),
      Receita(D(2024, 1, 10), 120, "ana", "nubank", "2x",
              <<D(2024, 1, 25), D(2024, 5, 25)>>),
      Receita(D(2024, 12, 5), 120, "ana", "nubank", "2x",
              <<D(2024, 12, 5), D(2025, 1, 5)>>),
      Receita(D(2024, 1, 10), 120, "ana", "nubank", "Mais de 6x",
              <<D(2024, 2, 1), D(2024, 3, 1)>>) }

\* Rows that exercise the breakdowns: several categories, payers and banks,
\* an empty key, and rows the filters leave out.
BreakRows ==
    { Despesa(D(2024, 1, 10), v, c, "Pago", "Não", 0) :
          v \in {60, 120}, c \in {"Lazer", "Moradia", ""} }
    \cup
    { Despesa(D(2024, 1, 10), 60, "Lazer", "A Pagar", "Não", 0) }
    \cup
    { Receita(D(2024, 1, 10), v, k[1], k[2], "Parcela Única", <<>>) :
          v \in {60, 120},
          k \in {<<"ana", "nubank">>, <<"bia", "nubank">>, <<"ana", "itau">>, <<"", "itau">>} }

AnalysisLists == SeqsUpTo(ProjRows, MaxTx) \cup SeqsUpTo(BreakRows, MaxTx)

----------------------------------------------------------------------------
(* Helpers over rows *)

RECURSIVE SumValor(_)
\* Series.sum() of the 'Valor' column
SumValor(rows) ==
    IF rows = <<>> THEN 0 ELSE Head(rows).Valor + SumValor(Tail(rows))

Range(s) == {s[i] : i \in DOMAIN s}

----------------------------------------------------------------------------
(* render_detailed_analysis_section: the breakdowns *)

\* df[(df['Tipo'] == 'despesa') & (df['Status'] == 'Pago')]
DespesasPagas(df) == SelectSeq(df, LAMBDA row : row.Tipo = "despesa" /\ row.Status = "Pago")

\* df[df['Tipo'] == 'receita']
Receitas(df) == SelectSeq(df, LAMBDA row : row.Tipo = "receita")

\* rows.groupby(column)['Valor'].sum(): one entry per value of the column
\* (an empty cell of the sheet reads as the string '', a value like any
\* other), in no order yet
GroupBy(rows, column) ==
    { [key |-> k, Valor |-> SumValor(SelectSeq(rows, LAMBDA row : row[column] = k))] :
          k \in {row[column] : row \in Range(rows)} }

Orderings(S) ==
    { s \in [1..Cardinality(S) -> S] : \A i, j \in 1..Cardinality(S) : i # j => s[i] # s[j] }

\* An ordering that leaves the entries as they come.
SortValuesUnsorted(groups) == Orderings(groups)

\* .sort_values(ascending=False): the orders the sort may produce; pandas'
\* default quicksort promises nothing about entries with equal totals.
SortValues(groups) ==
    { s \in Orderings(groups) : \A i, j \in DOMAIN s : i < j => s[i].Valor >= s[j].Valor }

\* lines 903-905: with no transaction the page says so and returns; neither
\* the breakdowns nor the projection are computed
AnalysisEmpty ==
    /\ pc = "start"
    /\ df_all_transactions = <<>>
    /\ pc' = "empty"
    /\ UNCHANGED <<now, df_all_transactions, idx, projection_data, gastos_por_categoria,
                   receitas_por_responsavel, receitas_por_banco, summary, monthly_summary>>
    /\ UNCHANGED storeVars
    /\ UNCHANGED sessionVars

\* lines 907-956. Which order the sort gives entries with equal totals is
\* not promised, but the sort is a function of its input: when the script
\* is run again on the same list it orders them as it did before.
RenderBreakdowns ==
    /\ pc = "start"
    /\ df_all_transactions # <<>>
    /\ gastos_por_categoria' \in SortValues(GroupBy(DespesasPagas(df_all_transactions), "Categoria"))
    /\ receitas_por_responsavel' \in SortValues(GroupBy(Receitas(df_all_transactions), "Responsavel"))
    /\ receitas_por_banco' \in SortValues(GroupBy(Receitas(df_all_transactions), "Banco"))
    /\ previous # <<>> =>
           /\ Range(gastos_por_categoria') = Range(previous[1].gastos_por_categoria) =>
                  gastos_por_categoria' = previous[1].gastos_por_categoria
           /\ Range(receitas_por_responsavel') = Range(previous[1].receitas_por_responsavel) =>
                  receitas_por_responsavel' = previous[1].receitas_por_responsavel
           /\ Range(receitas_por_banco') = Range(previous[1].receitas_por_banco) =>
                  receitas_por_banco' = previous[1].receitas_por_banco
    /\ pc' = "breakdowns"
    /\ UNCHANGED <<now, df_all_transactions, idx, projection_data, summary, monthly_summary>>
    /\ UNCHANGED storeVars
    /\ UNCHANGED sessionVars

----------------------------------------------------------------------------
(* render_detailed_analysis_section: the cash-flow projection *)

DictHas(dict, key) == \E i \in DOMAIN dict : dict[i].key = key

\* dict[key] = value: a new key goes last, a known key keeps its place
DictPut(dict, key, value) ==
    IF DictHas(dict, key)
    THEN [i \in DOMAIN dict |-> IF dict[i].key = key THEN value ELSE dict[i]]
    ELSE Append(dict, value)

\* dict[key][field] += amount
AddTo(dict, key, field, amount) ==
    [i \in DOMAIN dict |->
        IF dict[i].key = key THEN [dict[i] EXCEPT ![field] = @ + amount] ELSE dict[i]]

\* line 961
future_months == [i \in 1..ProjectionMonths |-> AddMonths(Today, i - 1)]

RECURSIVE InitBuckets(_, _)
\* lines 963-966
InitBuckets(dict, months) ==
    IF months = <<>> THEN dict
    ELSE InitBuckets(DictPut(dict, MonthKey(Head(months)),
                             [key |-> MonthKey(Head(months)),
                              Receitas |-> 0, Despesas |-> 0, Saldo |-> 0]),
                     Tail(months))

\* line 980
HasParcels(row) ==
    /\ row.FormaRecebimento \notin {"Parcela Única", "Mais de 6x"}
    /\ row.DatasParcelasReceita # <<>>

\* An instalment filter that also takes the instalments due today or earlier.
ParcelCountsAnyDate(dict, p_date, current_date) == DictHas(dict, MonthKey(p_date))

\* line 986
ParcelCounts(dict, p_date, current_date) ==
    DictHas(dict, MonthKey(p_date)) /\ DateLT(current_date, p_date)

\* line 988
ParcelShare(row) == row.Valor \div Len(row.DatasParcelasReceita)

RECURSIVE AddParcels(_, _, _, _)
\* lines 982-988
AddParcels(dict, row, parcel_dates, current_date) ==
    IF parcel_dates = <<>> THEN dict
    ELSE LET p_date == Head(parcel_dates)
             next   == IF ParcelCounts(dict, p_date, current_date)
                       THEN AddTo(dict, MonthKey(p_date), "Receitas", ParcelShare(row))
                       ELSE dict
         IN  AddParcels(next, row, Tail(parcel_dates), current_date)

\* lines 974-988
AddReceita(dict, row, current_date) ==
    LET own == IF DictHas(dict, MonthKey(row.Data))
               THEN AddTo(dict, MonthKey(row.Data), "Receitas", row.Valor)
               ELSE dict
    IN  IF HasParcels(row)
        THEN AddParcels(own, row, row.DatasParcelasReceita, current_date)
        ELSE own

\* An own-month rule that does not look at the status.
CountsInOwnMonthAnyStatus(dict, row, current_date) == DictHas(dict, MonthKey(row.Data))

\* lines 992 and 994
CountsInOwnMonth(dict, row, current_date) ==
    \/ row.Status = "A Pagar" /\ DictHas(dict, MonthKey(row.Data))
    \/ /\ row.Status = "Pago"
       /\ DateLE(FirstOfMonth(current_date), row.Data)
       /\ DictHas(dict, MonthKey(row.Data))

\* lines 992-995
AddDespesa(dict, row, current_date) ==
    IF CountsInOwnMonth(dict, row, current_date)
    THEN AddTo(dict, MonthKey(row.Data), "Despesas", row.Valor)
    ELSE dict

\* lines 998-1000: the loop over range(1, n) is entered, and its first
\* statement evaluates pd.DateOffset(months=i).date(), an attribute a
\* DateOffset does not have: AttributeError, which nothing catches.
RecurrenceRaises(row) == row.Recorrente = "Sim" /\ row.VezesRecorrencia > 1

\* A projection that goes on with the dict of the run before.
StartProjectionKeepingDict ==
    /\ pc = "breakdowns"
    /\ projection_data' = IF projection_data = <<>>
                          THEN InitBuckets(<<>>, future_months)
                          ELSE projection_data
    /\ idx' = 0
    /\ pc' = "loop"
    /\ UNCHANGED <<now, df_all_transactions, gastos_por_categoria,
                   receitas_por_responsavel, receitas_por_banco, summary, monthly_summary>>
    /\ UNCHANGED storeVars
    /\ UNCHANGED sessionVars

\* lines 959-968
StartProjection ==
    /\ pc = "breakdowns"
    /\ projection_data' = InitBuckets(<<>>, future_months)
    /\ idx' = 0
    /\ pc' = "loop"
    /\ UNCHANGED <<now, df_all_transactions, gastos_por_categoria,
                   receitas_por_responsavel, receitas_por_banco, summary, monthly_summary>>
    /\ UNCHANGED storeVars
    /\ UNCHANGED sessionVars

\* lines 970-1003, one row of the loop. row['Data'].date() of a row without
\* a date is NaT.date(): ValueError, which nothing catches.
ProjectRow ==
    /\ pc = "loop"
    /\ idx < Len(df_all_transactions)
    /\ LET row == df_all_transactions[idx + 1]
       IN  IF row.Data = NaT
           THEN /\ pc' = "raised"
                /\ UNCHANGED <<idx, projection_data>>
           ELSE IF row.Tipo = "receita"
           THEN /\ projection_data' = AddReceita(projection_data, row, Today)
                /\ idx' = idx + 1
                /\ pc' = pc
           ELSE IF row.Tipo = "despesa"
           THEN /\ projection_data' = AddDespesa(projection_data, row, Today)
                /\ IF RecurrenceRaises(row)
                   THEN pc' = "raised" /\ idx' = idx
                   ELSE pc' = pc /\ idx' = idx + 1
           ELSE /\ idx' = idx + 1
                /\ UNCHANGED <<pc, projection_data>>
    /\ UNCHANGED <<now, df_all_transactions, gastos_por_categoria,
                   receitas_por_responsavel, receitas_por_banco, summary, monthly_summary>>
    /\ UNCHANGED storeVars
    /\ UNCHANGED sessionVars

\* lines 1005-1009
FinishProjection ==
    /\ pc = "loop"
    /\ idx = Len(df_all_transactions)
    /\ projection_data' =
           [i \in DOMAIN projection_data |->
               [projection_data[i] EXCEPT !.Saldo =
                   projection_data[i].Receitas - projection_data[i].Despesas]]
    /\ pc' = "done"
    /\ UNCHANGED <<now, df_all_transactions, idx, gastos_por_categoria,
                   receitas_por_responsavel, receitas_por_banco, summary, monthly_summary>>
    /\ UNCHANGED storeVars
    /\ UNCHANGED sessionVars

InitAnalysis ==
    /\ now \in AnalysisNows
    /\ df_all_transactions \in AnalysisLists
    /\ pc = "start"
    /\ idx = 0
    /\ projection_data = <<>>
    /\ gastos_por_categoria = <<>>
    /\ receitas_por_responsavel = <<>>
    /\ receitas_por_banco = <<>>
    /\ summary = <<>>
    /\ monthly_summary = <<>>
    /\ StoreUntouched

NextAnalysis ==
    \/ AnalysisEmpty
    \/ RenderBreakdowns
    \/ StartProjection
    \/ ProjectRow
    \/ FinishProjection

\* The detailed-analysis page rendered once over any list of rows.
SpecAnalysis == InitAnalysis /\ [][NextAnalysis]_vars

----------------------------------------------------------------------------
(* What the projection is claimed to hold, stated from the rules alone *)

\* The projection has built its buckets (it is not computed for an empty list).
Started == pc \in {"loop", "raised", "done"}

\* The month n months after the month key <<y, m>>.
MonthAfter(key, n) ==
    LET total == key[1] * 12 + (key[2] - 1) + n
    IN  <<total \div 12, (total % 12) + 1>>

\* Installments(n): the number of instalments a payment plan names, 0 for
\* a single payment, for more than six and for no plan.
PlanCount(forma) ==
    CASE forma = "2x" -> 2
      [] forma = "3x" -> 3
      [] forma = "4x" -> 4
      [] forma = "5x" -> 5
      [] forma = "6x" -> 6
      [] OTHER -> 0

RECURSIVE ParcelsDue(_, _, _)
\* The share an income owes the month `key` for its instalment dates after today.
ParcelsDue(row, dates, key) ==
    IF dates = <<>> THEN 0
    ELSE (IF MonthKey(Head(dates)) = key /\ DateLT(Today, Head(dates))
          THEN row.Valor \div PlanCount(row.FormaRecebimento) ELSE 0)
         + ParcelsDue(row, Tail(dates), key)

\* Income a row owes the month `key`: all of it in its own month, and a
\* share for each future instalment date in that month.
IncomeDue(row, key) ==
    IF row.Tipo # "receita" THEN 0
    ELSE (IF MonthKey(row.Data) = key THEN row.Valor ELSE 0)
         + (IF PlanCount(row.FormaRecebimento) > 0
            THEN ParcelsDue(row, row.DatasParcelasReceita, key) ELSE 0)

\* Expense a row owes the month `key` by the own-month rule.
OwnMonthDue(row, key) ==
    IF /\ row.Tipo = "despesa"
       /\ MonthKey(row.Data) = key
       /\ \/ row.Status = "A Pagar"
          \/ row.Status = "Pago" /\ ~DateLT(row.Data, MkDate(now.y, now.m, 1))
    THEN row.Valor ELSE 0

RECURSIVE RecurrenceDue(_, _, _)
\* Expense a recurring row owes the month `key` for its occurrences 1..i.
RecurrenceDue(row, i, key) ==
    IF i < 1 \/ row.Tipo # "despesa" \/ row.Recorrente # "Sim" THEN 0
    ELSE (IF MonthKey(AddMonths(row.Data, i)) = key /\ DateLT(Today, AddMonths(row.Data, i))
          THEN row.Valor ELSE 0)
         + RecurrenceDue(row, i - 1, key)

ExpenseDue(row, key) == OwnMonthDue(row, key) + RecurrenceDue(row, row.VezesRecorrencia - 1, key)

RECURSIVE IncomeDueUpTo(_, _)
IncomeDueUpTo(n, key) ==
    IF n = 0 THEN 0
    ELSE IncomeDue(df_all_transactions[n], key) + IncomeDueUpTo(n - 1, key)

RECURSIVE ExpenseDueUpTo(_, _)
ExpenseDueUpTo(n, key) ==
    IF n = 0 THEN 0
    ELSE ExpenseDue(df_all_transactions[n], key) + ExpenseDueUpTo(n - 1, key)

\* The row at which the loop stopped, when it stopped on a dated row.
StoppedOnDatedRow ==
    /\ pc = "raised"
    /\ idx < Len(df_all_transactions)
    /\ df_all_transactions[idx + 1].Data # NaT

\* C1: once the projection loop has handled its first idx rows, the income
\* of every bucket is the sum, over the Income rows handled, of the full
\* amount when the bucket is the month of the row's own date, plus
\* amount / n for each instalment date of an Installments(n) row that is
\* strictly after today and falls in the bucket's month; instalment dates on
\* or before today, and single-payment or more-than-six plans, add nothing.
C1_InstallmentIncome ==
    Started =>
        \A i \in DOMAIN projection_data :
            projection_data[i].Receitas = IncomeDueUpTo(idx, projection_data[i].key)

\* Scenario C of the specification: 300 in three instalments from February,
\* seen on 20 January: January holds 300 and February 100.
C1_Witness ==
    /\ pc = "done"
    /\ Len(df_all_transactions) = 1
    /\ df_all_transactions[1].FormaRecebimento = "3x"
    /\ \E i, j \in DOMAIN projection_data :
           /\ projection_data[i].key = <<2024, 1>> /\ projection_data[i].Receitas = 300
           /\ projection_data[j].key = <<2024, 2>> /\ projection_data[j].Receitas = 100

\* C2: once the loop has reached a recurring Expense row with
\* recurrence_count > 1, every bucket holds, on top of the own-month rule, the
\* row's amount for each date transactionDate + i months (i in
\* 1..recurrence_count-1) that is after today and falls in the bucket's month.
C2_RecurrenceProjected ==
    Started =>
        \A i \in DOMAIN projection_data :
            projection_data[i].Despesas =
                ExpenseDueUpTo(IF StoppedOnDatedRow THEN idx + 1 ELSE idx, projection_data[i].key)

\* C3: as long as the loop runs, the expense of every bucket is what the
\* Expense rows handled owe it, where a row owes its amount to the bucket of
\* its own month exactly when its status is Unpaid, or Paid with a date on or
\* after the first day of the current month; and the row the loop stopped on
\* has paid its own-month share by the same rule.
C3_OwnMonthExpense ==
    Started =>
        \A i \in DOMAIN projection_data :
            projection_data[i].Despesas =
                ExpenseDueUpTo(idx, projection_data[i].key)
                + (IF StoppedOnDatedRow
                   THEN OwnMonthDue(df_all_transactions[idx + 1], projection_data[i].key)
                   ELSE 0)

\* An unpaid and a paid expense of the current month both count, one of an
\* earlier month and one without status do not.
C3_Witness ==
    /\ pc = "done"
    /\ Len(df_all_transactions) = 2
    /\ df_all_transactions[1].Tipo = "despesa" /\ df_all_transactions[1].Status = "Pago"
    /\ df_all_transactions[1].Data = MkDate(2024, 1, 10)
    /\ df_all_transactions[2].Tipo = "despesa" /\ df_all_transactions[2].Status = ""
    /\ df_all_transactions[2].Data = MkDate(2024, 1, 10)
    /\ \E i \in DOMAIN projection_data :
           projection_data[i].key = <<2024, 1>> /\ projection_data[i].Despesas = 60

\* C4: the projection has exactly 4 buckets, the current month and the next
\* 3 calendar months in this order (hence pairwise distinct), whatever the
\* day of the month, and before the first row is handled each holds income 0
\* and expense 0.
C4_FourBuckets ==
    Started =>
        /\ Len(projection_data) = 4
        /\ \A i \in 1..4 :
               /\ i \in DOMAIN projection_data
               /\ projection_data[i].key = MonthAfter(<<now.y, now.m>>, i - 1)
        /\ \A i, j \in DOMAIN projection_data :
               i # j => projection_data[i].key # projection_data[j].key
        /\ (pc = "loop" /\ idx = 0) =>
               \A i \in DOMAIN projection_data :
                   projection_data[i].Receitas = 0 /\ projection_data[i].Despesas = 0

\* On 30 November the fourth bucket is February of the next year, a month
\* without a 30th day.
C4_Witness ==
    /\ pc = "loop"
    /\ idx = 0
    /\ now.d = 30
    /\ Len(projection_data) = 4
    /\ projection_data[4] = [key |-> <<2025, 2>>, Receitas |-> 0, Despesas |-> 0, Saldo |-> 0]

\* C5: no aggregation raises on a list that holds a row whose date is
\* missing: the row is left out of the sums and the computation goes on.
C5_NoRaiseOnMissingDate ==
    ~(pc = "raised" /\ idx < Len(df_all_transactions)
                    /\ df_all_transactions[idx + 1].Data = NaT)

\* One breakdown as claimed: one entry per key of the rows that pass, each
\* with the sum of exactly those rows, largest total first.
IsBreakdown(result, rows, column) ==
    /\ \A i, j \in DOMAIN result : i # j => result[i].key # result[j].key
    /\ {result[i].key : i \in DOMAIN result} = {rows[k][column] : k \in DOMAIN rows}
    /\ \A i \in DOMAIN result :
           result[i].Valor =
               SumValor(SelectSeq(rows, LAMBDA row : row[column] = result[i].key))
    /\ \A i, j \in DOMAIN result : i < j => result[i].Valor >= result[j].Valor

\* C10: each breakdown (paid expenses by category, income by payer, income
\* by bank) has one entry per distinct grouping key among the rows that pass
\* its filter, with the sum of the amounts of exactly those rows, in
\* descending order of total.
C10_Breakdowns ==
    pc \in {"breakdowns", "loop", "raised", "done"} =>
        /\ IsBreakdown(gastos_por_categoria,
                       SelectSeq(df_all_transactions,
                                 LAMBDA row : row.Tipo = "despesa" /\ row.Status = "Pago"),
                       "Categoria")
        /\ IsBreakdown(receitas_por_responsavel,
                       SelectSeq(df_all_transactions, LAMBDA row : row.Tipo = "receita"),
                       "Responsavel")
        /\ IsBreakdown(receitas_por_banco,
                       SelectSeq(df_all_transactions, LAMBDA row : row.Tipo = "receita"),
                       "Banco")

\* Two categories with different totals, the larger first.
C10_Witness ==
    /\ pc = "done"
    /\ Len(gastos_por_categoria) = 2
    /\ gastos_por_categoria[1].Valor > gastos_por_categoria[2].Valor
    /\ df_all_transactions[1].Valor < df_all_transactions[2].Valor

\* Position in rows of the first row whose column holds key (0 if none).
FirstRow(rows, column, key) ==
    IF \E k \in DOMAIN rows : rows[k][column] = key
    THEN CHOOSE k \in DOMAIN rows :
             /\ rows[k][column] = key
             /\ \A l \in DOMAIN rows : rows[l][column] = key => k <= l
    ELSE 0

\* Entries with equal totals stand in the order in which their keys are
\* first met in rows.
TiesByFirstRow(result, rows, column) ==
    \A i, j \in DOMAIN result :
        (i < j /\ result[i].Valor = result[j].Valor) =>
            FirstRow(rows, column, result[i].key) < FirstRow(rows, column, result[j].key)

\* C11: in a breakdown, when two grouping keys have equal totals, the key
\* whose first row appears earlier in the transaction list comes first in
\* the output (stable tie-break by first encounter).
C11_StableTieBreak ==
    pc \in {"breakdowns", "loop", "raised", "done"} =>
        /\ TiesByFirstRow(gastos_por_categoria, DespesasPagas(df_all_transactions), "Categoria")
        /\ TiesByFirstRow(receitas_por_responsavel, Receitas(df_all_transactions), "Responsavel")
        /\ TiesByFirstRow(receitas_por_banco, Receitas(df_all_transactions), "Banco")

\* No entry stands for the empty key.
NoEmptyKey(result) == \A i \in DOMAIN result : result[i].key # ""

\* C12: a row whose grouping key (category, payer or bank) is empty never
\* appears in the corresponding breakdown: it forms no entry of its own and
\* adds to no other entry's total.
C12_EmptyKeyExcluded ==
    pc \in {"breakdowns", "loop", "raised", "done"} =>
        /\ NoEmptyKey(gastos_por_categoria)
        /\ NoEmptyKey(receitas_por_responsavel)
        /\ NoEmptyKey(receitas_por_banco)
        /\ \A i \in DOMAIN receitas_por_responsavel :
               receitas_por_responsavel[i].Valor =
                   SumValor(SelectSeq(Receitas(df_all_transactions),
                                      LAMBDA row : row.Responsavel = receitas_por_responsavel[i].key))

----------------------------------------------------------------------------
(* render_overview_dashboard: the current-month summary and the trend *)

OverviewNows ==
    { [y |-> 2024, m |-> 1, d |-> 20, t |-> 0],
      [y |-> 2024, m |-> 1, d |-> 20, t |-> 1],
      [y |-> 2024, m |-> 2, d |-> 15, t |-> 1] }

\* Incomes and paid or unpaid expenses dated a year back, in the current
\* month before and after today, and without a date.
OverviewRows ==
    { Receita(dt, v, "ana", "nubank", "Parcela Única", <<>>) :
          dt \in {D(2023, 1, 5), D(2023, 1, 20), D(2024, 1, 10), D(2024, 1, 25), NaT},
          v \in {60, 120} }
    \cup
    { Despesa(dt, v, "Lazer", st, "Não", 0) :
          dt \in {D(2023, 1, 5), D(2023, 1, 20), D(2024, 1, 10), D(2024, 1, 25), NaT},
          v \in {60, 120}, st \in {"Pago", "A Pagar"} }

OverviewLists == SeqsUpTo(OverviewRows, MaxTx)

\* str.lower() on the cells the domain holds
Lower(str) ==
    CASE str = "Pago" -> "pago"
      [] str = "A Pagar" -> "a pagar"
      [] OTHER -> str

\* A month filter that lets every dated row through.
InCurrentMonthAnyMonth(row) == row.Data # NaT

\* line 282: df['Data'].dt.strftime("%Y-%m") == current_year_month; the
\* strftime of a missing date is missing and equals nothing
InCurrentMonth(row) == row.Data # NaT /\ MonthKey(row.Data) = MonthKey(Today)

\* lines 268-288
get_summary_current_month(df) ==
    IF df = <<>> THEN <<0, 0, 0>>
    ELSE LET df_current_month == SelectSeq(df, InCurrentMonth)
         IN  << SumValor(SelectSeq(df_current_month,
                                   LAMBDA row : Lower(row.Tipo) = "receita")),
                SumValor(SelectSeq(df_current_month,
                                   LAMBDA row : Lower(row.Tipo) = "despesa"
                                                /\ Lower(row.Status) = "pago")),
                SumValor(SelectSeq(df_current_month,
                                   LAMBDA row : Lower(row.Tipo) = "despesa"
                                                /\ Lower(row.Status) = "a pagar")) >>

\* line 629: end_date - pd.DateOffset(months=12), at the time of day of now
start_date == AddMonths(Today, 0 - TrendMonths)

\* A window filter by calendar month, whatever the day.
InTrendWindowByMonth(row) ==
    /\ row.Data # NaT
    /\ ~DateLT(row.Data, FirstOfMonth(start_date))
    /\ DateLE(FirstOfMonth(row.Data), Today)

\* lines 631-634: start_date <= Data <= end_date, Data being midnight of its
\* day and both bounds carrying the time of day of now; a comparison with a
\* missing date is false
InTrendWindow(row) ==
    /\ row.Data # NaT
    /\ \/ DateLT(start_date, row.Data)
       \/ row.Data = start_date /\ now.t = 0
    /\ DateLE(row.Data, Today)

MonthIndex(date) == date.y * 12 + (date.m - 1)

KeyOfIndex(n) == <<n \div 12, (n % 12) + 1>>

\* A range of months that leaves out the month of its start.
PeriodRangeAfterStart(from, to) ==
    [i \in 1..(MonthIndex(to) - MonthIndex(from)) |-> KeyOfIndex(MonthIndex(from) + i)]

\* line 655: pd.period_range(start_date, end_date, freq='M'), the months
\* from that of start_date to that of end_date, both included
PeriodRange(from, to) ==
    [i \in 1..(MonthIndex(to) - MonthIndex(from) + 1) |-> KeyOfIndex(MonthIndex(from) + i - 1)]

\* A gate that draws the trend of an empty selection as well.
TrendShownAlways(df_filtered) == TRUE

\* line 636
TrendShown(df_filtered) == df_filtered # <<>>

\* lines 637-664: the pivot by month and kind, the balance, and the reindex
\* over all_months that fills the months without rows with 0
TrendTable(df_filtered) ==
    LET all_months == PeriodRange(start_date, Today)
        Of(tipo, key) ==
            SumValor(SelectSeq(df_filtered,
                               LAMBDA row : row.Tipo = tipo /\ MonthKey(row.Data) = key))
    IN  [i \in DOMAIN all_months |->
            [AnoMes  |-> all_months[i],
             Receita |-> Of("receita", all_months[i]),
             Despesa |-> Of("despesa", all_months[i]),
             Saldo   |-> Of("receita", all_months[i]) - Of("despesa", all_months[i])]]

\* lines 626-675: no table when there is no row, or none in the window
MonthlyTrend(df) ==
    LET df_filtered == SelectSeq(df, InTrendWindow)
    IN  IF df # <<>> /\ TrendShown(df_filtered) THEN TrendTable(df_filtered) ELSE <<>>

\* lines 603-675
RenderOverview ==
    /\ pc = "start"
    /\ summary' = get_summary_current_month(df_all_transactions)
    /\ monthly_summary' = MonthlyTrend(df_all_transactions)
    /\ pc' = "done"
    /\ UNCHANGED <<now, df_all_transactions, idx, projection_data, gastos_por_categoria,
                   receitas_por_responsavel, receitas_por_banco>>
    /\ UNCHANGED storeVars
    /\ UNCHANGED sessionVars

InitOverview ==
    /\ now \in OverviewNows
    /\ df_all_transactions \in OverviewLists
    /\ pc = "start"
    /\ idx = 0
    /\ projection_data = <<>>
    /\ gastos_por_categoria = <<>>
    /\ receitas_por_responsavel = <<>>
    /\ receitas_por_banco = <<>>
    /\ summary = <<>>
    /\ monthly_summary = <<>>
    /\ StoreUntouched

NextOverview == RenderOverview

\* The overview page rendered once over any list of rows.
SpecOverview == InitOverview /\ [][NextOverview]_vars

----------------------------------------------------------------------------
(* What the overview is claimed to hold, stated from the rules alone *)

\* The rows of the list
Rows == {df_all_transactions[k] : k \in DOMAIN df_all_transactions}

RECURSIVE TotalWhere(_, _, _, _)
\* The sum of the amounts of the first n rows of the given kind and status
\* ("" for any status) dated in the set of dates `dates`.
TotalWhere(n, tipo, status, dates) ==
    IF n = 0 THEN 0
    ELSE LET row == df_all_transactions[n]
         IN  (IF /\ row.Tipo = tipo
                 /\ (status = "" \/ row.Status = status)
                 /\ row.Data \in dates
              THEN row.Valor ELSE 0)
             + TotalWhere(n - 1, tipo, status, dates)

\* The dated days of the rows
DatesOfRows == {row.Data : row \in Rows} \ {NaT}

DatesInMonth(key) == {date \in DatesOfRows : <<date.y, date.m>> = key}

\* The day twelve months before today (28 February for a 29 February).
YearAgo ==
    MkDate(now.y - 1, now.m,
           IF now.d <= DaysInMonth(now.y - 1, now.m) THEN now.d
           ELSE DaysInMonth(now.y - 1, now.m))

\* The days d with now - 12 months <= d <= now as instants, d at midnight
DatesInInterval ==
    { date \in DatesOfRows :
        /\ DateLE(date, Today)
        /\ DateLT(YearAgo, date) \/ (date = YearAgo /\ now.t = 0) }

\* C6: the summary is (totalIncome, totalPaidExpense, totalUnpaidExpense),
\* the sums of the amounts of exactly the Income rows, the Paid Expense rows
\* and the Unpaid Expense rows dated in the current month; every term is
\* >= 0, and it is (0, 0, 0) when the list is empty or no row is in the month.
C6_MonthlySummary ==
    pc = "done" =>
        LET n == Len(df_all_transactions)
            month == DatesInMonth(<<now.y, now.m>>)
        IN  /\ summary = << TotalWhere(n, "receita", "", month),
                            TotalWhere(n, "despesa", "Pago", month),
                            TotalWhere(n, "despesa", "A Pagar", month) >>
            /\ summary[1] >= 0 /\ summary[2] >= 0 /\ summary[3] >= 0
            /\ month = {} => summary = <<0, 0, 0>>

\* A paid and an unpaid expense of the current month, and no income.
C6_Witness ==
    /\ pc = "done"
    /\ Len(df_all_transactions) = 2
    /\ summary = <<0, 60, 120>>

C8_ZeroFilledWhenEmpty ==
    (pc = "done" /\ DatesInInterval = {}) =>
        /\ monthly_summary # <<>>
        /\ \A i \in DOMAIN monthly_summary :
               /\ monthly_summary[i].Receita = 0
               /\ monthly_summary[i].Despesa = 0
               /\ monthly_summary[i].Saldo = 0

\* C8 amended: the trend is drawn exactly when some row is dated in the
\* window; with an empty list or no row in the window there is no table at
\* all, and in a table that is drawn every month without a row in the window
\* has income, expense and balance 0.
C8_NoTableWhenEmpty ==
    pc = "done" =>
        /\ (monthly_summary = <<>>) <=> (DatesInInterval = {})
        /\ \A i \in DOMAIN monthly_summary :
               (DatesInMonth(monthly_summary[i].AnoMes) \cap DatesInInterval = {}) =>
                   /\ monthly_summary[i].Receita = 0
                   /\ monthly_summary[i].Despesa = 0
                   /\ monthly_summary[i].Saldo = 0

\* Two rows, both outside the window: nothing is drawn.
C8_Witness ==
    /\ pc = "done"
    /\ Len(df_all_transactions) = 2
    /\ DatesOfRows # {}
    /\ DatesInInterval = {}
    /\ monthly_summary = <<>>

\* C9 as stated: every row dated in a month that is an entry adds its amount
\* to that entry, whatever its status and its day, and balance = income - expense.
C9_WholeMonthsCount ==
    pc = "done" =>
        \A i \in DOMAIN monthly_summary :
            LET e == monthly_summary[i]
                n == Len(df_all_transactions)
            IN  /\ e.Receita = TotalWhere(n, "receita", "", DatesInMonth(e.AnoMes))
                /\ e.Despesa = TotalWhere(n, "despesa", "", DatesInMonth(e.AnoMes))
                /\ e.Saldo = e.Receita - e.Despesa

\* C9 amended: every row dated d with now - 12 months <= d <= now adds its
\* amount to the income or expense of the entry of its month whatever its
\* status, a row dated outside that interval adds nothing even when its
\* month is an entry, and balance = income - expense.
C9_IntervalRowsCount ==
    pc = "done" =>
        \A i \in DOMAIN monthly_summary :
            LET e == monthly_summary[i]
                n == Len(df_all_transactions)
                days == DatesInMonth(e.AnoMes) \cap DatesInInterval
            IN  /\ e.Receita = TotalWhere(n, "receita", "", days)
                /\ e.Despesa = TotalWhere(n, "despesa", "", days)
                /\ e.Saldo = e.Receita - e.Despesa

\* On 20 January an unpaid expense of the 10th counts and an income of the
\* 25th does not, though both are of the month of the last entry.
C9_Witness ==
    /\ pc = "done"
    /\ Len(df_all_transactions) = 2
    /\ df_all_transactions[1].Data = MkDate(2024, 1, 10)
    /\ df_all_transactions[1].Status = "A Pagar"
    /\ df_all_transactions[2].Data = MkDate(2024, 1, 25)
    /\ df_all_transactions[2].Tipo = "receita"
    /\ Len(monthly_summary) = 13
    /\ monthly_summary[13].Receita = 0
    /\ monthly_summary[13].Despesa = df_all_transactions[1].Valor
    /\ monthly_summary[13].Saldo = 0 - df_all_transactions[1].Valor

----------------------------------------------------------------------------
(* The worksheet 'goals' and the goals table of the pages *)

Users == {"ana", "bia"}

\* One row of the worksheet 'goals'. The columns descricao, categoria and
\* data_limite are written once by add_goal and read by no decision of the
\* code; they are left out.
GoalRow(id, username, valor_meta, valor_atual, status) ==
    [id |-> id, username |-> username, valor_meta |-> valor_meta,
     valor_atual |-> valor_atual, status |-> status]

\* get_goals(username): the rows of the user, in sheet order
get_goals(sheet, username) == SelectSeq(sheet, LAMBDA row : row.username = username)

\* Progress is held in hundredths of a percent: 10000 is 100.00 %.
Percent100 == 10000

\* (valor_atual / valor_meta * 100).round(2), for valor_meta > 0: the
\* nearest hundredth, an exact half going to the even hundredth as numpy
\* rounds it.
RoundedPercent(valor_atual, valor_meta) ==
    LET n == valor_atual * Percent100
        q == n \div valor_meta
        r == n % valor_meta
    IN  IF 2 * r < valor_meta THEN q
        ELSE IF 2 * r > valor_meta THEN q + 1
        ELSE IF q % 2 = 0 THEN q ELSE q + 1

\* A clip that lets every value through.
ClipNothing(x, upper) == x

\* Series.clip(upper=upper)
Clip(x, upper) == IF x > upper THEN upper ELSE x

\* lines 681-682 and 1055-1056: the column 'Progresso (%)'
Progresso(row) == Clip(RoundedPercent(row.valor_atual, row.valor_meta), Percent100)

\* lines 679-682 and 1053-1056: the goals of the user with their progress;
\* nothing is computed when the user has no goal
RenderGoals ==
    /\ goals_df = <<>>
    /\ get_goals(goals_sheet, "ana") # <<>>
    /\ goals_df' = [i \in DOMAIN get_goals(goals_sheet, "ana") |->
                       [goal |-> get_goals(goals_sheet, "ana")[i],
                        Progresso |-> Progresso(get_goals(goals_sheet, "ana")[i])]]
    /\ UNCHANGED <<transactions_sheet, goals_sheet, call, created>>
    /\ UNCHANGED pageVars
    /\ UNCHANGED sessionVars

\* Largest number of goals on the page whose progress is checked.
MaxGoalsShown == 1

\* Goals below, at, just under and over their target, with targets for
\* which the percentage is whole, periodic, or falls on an exact half.
ProgressGoals ==
    { GoalRow(1, u, valor_meta, valor_atual, "Em Progresso") :
          u \in {"ana"}, valor_meta \in {3, 7, 32}, valor_atual \in 0..40 }

\* The pages are not being rendered.
PagesIdle ==
    /\ now = [y |-> 2024, m |-> 1, d |-> 20, t |-> 1]
    /\ df_all_transactions = <<>>
    /\ pc = "idle"
    /\ idx = 0
    /\ projection_data = <<>>
    /\ gastos_por_categoria = <<>>
    /\ receitas_por_responsavel = <<>>
    /\ receitas_por_banco = <<>>
    /\ summary = <<>>
    /\ monthly_summary = <<>>

InitProgress ==
    /\ PagesIdle
    /\ transactions_sheet = <<>>
    /\ goals_sheet \in SeqsUpTo(ProgressGoals, MaxGoalsShown)
    /\ call = NoCall
    /\ created = {}
    /\ goals_df = <<>>
    /\ SessionFresh

NextProgress == RenderGoals

\* The goals table drawn once over any goals of the user.
SpecProgress == InitProgress /\ [][NextProgress]_vars

\* C13: for every goal with target_amount > 0 and current_amount >= 0 the
\* displayed progress is min(100, current_amount / target_amount * 100
\* rounded to 2 decimals): it is never above 100, at 100 exactly when the
\* rounded percentage reaches 100, and otherwise within half a hundredth of
\* the exact percentage.
C13_ProgressClamped ==
    \A i \in DOMAIN goals_df :
        LET c == goals_df[i].goal.valor_atual
            t == goals_df[i].goal.valor_meta
            p == goals_df[i].Progresso
            d == p * t - c * Percent100
        IN  (t > 0 /\ c >= 0) =>
                /\ p <= Percent100
                /\ p = Percent100 <=> 2 * c * Percent100 >= (2 * Percent100 - 1) * t
                /\ p < Percent100 => (2 * d <= t /\ 2 * d >= 0 - t)

\* A goal whose current amount is above its target is shown at 100.
C13_Witness ==
    /\ goals_df # <<>>
    /\ goals_df[1].goal.valor_atual > goals_df[1].goal.valor_meta
    /\ goals_df[1].Progresso = Percent100

----------------------------------------------------------------------------
(* The worksheet 'transacoes' and the functions that write it *)

\* The header row: the columns get_transactions expects, in sheet order.
TxHeader ==
    <<"id", "data", "descricao", "valor", "tipo", "categoria", "username",
      "responsavel", "banco", "forma_recebimento", "datas_parcelas_receita",
      "recorrente", "vezes_recorrencia", "status">>

\* header.index(column) + 1; 0 when the header has no such column
ColumnIndex(header, column) ==
    IF \E i \in DOMAIN header : header[i] = column
    THEN CHOOSE i \in DOMAIN header : header[i] = column
    ELSE 0

\* append_row(values): the values fill the cells of a new row from the
\* first column on; a cell that gets no value, or gets None, is empty and
\* reads back as ''.
SheetRow(header, values) ==
    [column \in Range(header) |->
        IF ColumnIndex(header, column) <= Len(values)
        THEN values[ColumnIndex(header, column)]
        ELSE ""]

Max(S) == CHOOSE x \in S : \A y \in S : y <= x

\* An id taken from the number of rows.
NextIdByCount(sheet) == Len(sheet) + 1

\* lines 109-113 and 296-300: 1 for a sheet without rows, else the largest
\* id of the sheet, whoever owns the row, plus 1
NextId(sheet) ==
    IF sheet = <<>> THEN 1 ELSE Max({sheet[i].id : i \in DOMAIN sheet}) + 1

\* lines 115-130: the list add_transaction appends. It has thirteen values
\* for the fourteen columns: forma_recebimento is not in it.
TransactionValues(next_id, username, f) ==
    <<next_id, f.data, f.descricao, f.valor, f.tipo, f.categoria, username,
      f.responsavel, f.banco, f.datas_parcelas_receita, f.recorrente,
      f.vezes_recorrencia, f.status>>

\* add_transaction(username, ...): the sheet after the call
add_transaction(sheet, username, f) ==
    Append(sheet, SheetRow(TxHeader, TransactionValues(NextId(sheet), username, f)))

\* A search that looks at the id alone.
FindRowAnyOwner(sheet, id, username) ==
    IF \E i \in DOMAIN sheet : sheet[i].id = id
    THEN CHOOSE i \in DOMAIN sheet :
             sheet[i].id = id /\ \A j \in DOMAIN sheet : sheet[j].id = id => i <= j
    ELSE 0

\* The loops of lines 193-205, 229-251, 354-363, 393-402 and 425-434: the
\* position of the first row with this id and this owner; 0 when there is
\* none.
FindRow(sheet, id, username) ==
    IF \E i \in DOMAIN sheet : sheet[i].id = id /\ sheet[i].username = username
    THEN CHOOSE i \in DOMAIN sheet :
             /\ sheet[i].id = id /\ sheet[i].username = username
             /\ \A j \in DOMAIN sheet :
                    (sheet[j].id = id /\ sheet[j].username = username) => i <= j
    ELSE 0

\* A deletion that takes the rows below the deleted one with it.
DeleteRowAndBelow(sheet, i) == SubSeq(sheet, 1, i - 1)

\* delete_rows(i)
DeleteRow(sheet, i) ==
    [j \in 1..(Len(sheet) - 1) |-> IF j < i THEN sheet[j] ELSE sheet[j + 1]]

\* delete_transaction(transaction_id, username): the sheet after the call
\* and the value returned
delete_transaction(sheet, transaction_id, username) ==
    LET i == FindRow(sheet, transaction_id, username)
    IN  IF i # 0
        THEN [sheet |-> DeleteRow(sheet, i), ret |-> TRUE]
        ELSE [sheet |-> sheet, ret |-> FALSE]

\* An update that takes every named column for a column of the sheet.
UpdateCellsAnyKey(header, changes) == DOMAIN changes

\* lines 241-247: of the requested changes, those whose column is in the
\* header
UpdateCells(header, changes) == {key \in DOMAIN changes : ColumnIndex(header, key) # 0}

\* update_transaction(transaction_id, username, **changes): the sheet after
\* the call and the value returned
update_transaction(sheet, transaction_id, username, changes) ==
    LET i == FindRow(sheet, transaction_id, username)
        update_cells == UpdateCells(TxHeader, changes)
    IN  IF i # 0 /\ update_cells # {}
        THEN [sheet |-> [sheet EXCEPT ![i] =
                            [column \in DOMAIN sheet[i] |->
                                IF column \in update_cells THEN changes[column]
                                ELSE sheet[i][column]]],
              ret |-> TRUE]
        ELSE [sheet |-> sheet, ret |-> FALSE]

\* A read that returns every row of the sheet.
get_all_transactions(sheet, username) == sheet

\* get_transactions(username): the rows of the user, in sheet order
get_transactions(sheet, username) == SelectSeq(sheet, LAMBDA row : row.username = username)

----------------------------------------------------------------------------
(* The functions that write the worksheet 'goals' *)

\* An add_goal that numbers the goals of each user apart.
add_goal_per_owner(sheet, username, valor_meta) ==
    Append(sheet, GoalRow(NextId(get_goals(sheet, username)), username, valor_meta,
                          0, "Em Progresso"))

\* add_goal(username, descricao, valor_meta, categoria, data_limite): the
\* sheet after the call
add_goal(sheet, username, valor_meta) ==
    Append(sheet, GoalRow(NextId(sheet), username, valor_meta, 0, "Em Progresso"))

\* update_goal_progress(goal_id, username, amount)
update_goal_progress(sheet, goal_id, username, amount) ==
    LET i == FindRow(sheet, goal_id, username)
    IN  IF i # 0
        THEN [sheet |-> [sheet EXCEPT ![i].valor_atual = sheet[i].valor_atual + amount],
              ret |-> TRUE]
        ELSE [sheet |-> sheet, ret |-> FALSE]

\* A completion that reopens a goal already completed.
mark_goal_toggled(sheet, goal_id, username) ==
    LET i == FindRow(sheet, goal_id, username)
    IN  IF i # 0
        THEN [sheet |-> [sheet EXCEPT ![i].status = IF sheet[i].status = "Concluída"
                                                     THEN "Em Progresso"
                                                     ELSE "Concluída",
                                      ![i].valor_atual = sheet[i].valor_meta],
              ret |-> TRUE]
        ELSE [sheet |-> sheet, ret |-> FALSE]

\* mark_goal_as_completed(goal_id, username)
mark_goal_as_completed(sheet, goal_id, username) ==
    LET i == FindRow(sheet, goal_id, username)
    IN  IF i # 0
        THEN [sheet |-> [sheet EXCEPT ![i].status = "Concluída",
                                      ![i].valor_atual = sheet[i].valor_meta],
              ret |-> TRUE]
        ELSE [sheet |-> sheet, ret |-> FALSE]

\* delete_goal(goal_id, username)
delete_goal(sheet, goal_id, username) ==
    LET i == FindRow(sheet, goal_id, username)
    IN  IF i # 0
        THEN [sheet |-> DeleteRow(sheet, i), ret |-> TRUE]
        ELSE [sheet |-> sheet, ret |-> FALSE]

----------------------------------------------------------------------------
(* render_unified_transaction_form: what the form passes to add_transaction *)

\* The arguments of one submission. The cells of the sheet other than id and
\* valor are strings (a date as "%Y-%m-%d", the instalment dates as the JSON
\* text of their list, a count as its digits); None is written as an empty
\* cell, ''.
FormArgs(tipo, valor, categoria, responsavel, banco, forma, datas, recorrente, vezes, status) ==
    [data |-> "2024-01-10", descricao |-> "lançamento", valor |-> valor, tipo |-> tipo,
     categoria |-> categoria, responsavel |-> responsavel, banco |-> banco,
     forma_recebimento |-> forma, datas_parcelas_receita |-> datas,
     recorrente |-> recorrente, vezes_recorrencia |-> vezes, status |-> status]

\* lines 490-552: an income; the expense fields stay None
ReceitaForm(valor, responsavel, banco, forma, datas) ==
    FormArgs("receita", valor, "Salário", responsavel, banco, forma, datas, "", "", "")

\* lines 554-570: an expense; the income fields stay None, and the
\* recurrence count is asked only of a recurring expense
DespesaForm(valor, categoria, recorrente, vezes, status) ==
    FormArgs("despesa", valor, categoria, "", "", "", "",
             recorrente, IF recorrente = "Sim" THEN vezes ELSE "", status)

----------------------------------------------------------------------------
(* Calls of the storage functions, one after another, by two users *)

\* Largest number of rows the two worksheets hold together.
MaxRows == 2

\* Ids grow without limit as rows are deleted and added; the calls stop
\* adding when the next id would pass MaxId.
MaxId == MaxRows + 1

\* The ids a call is made with: those of the rows of the sheet, whoever owns
\* them, and one id no row has.
Ids(sheet) == {sheet[i].id : i \in DOMAIN sheet} \cup {NextId(sheet)}

\* Whose row the id of a call names: a row of the caller ("own"), only rows
\* of other users ("foreign"), or no row ("absent").
Target(sheet, id, username) ==
    IF \E i \in DOMAIN sheet : sheet[i].id = id /\ sheet[i].username = username THEN "own"
    ELSE IF \E i \in DOMAIN sheet : sheet[i].id = id THEN "foreign"
    ELSE "absent"

RowsStored == Len(transactions_sheet) + Len(goals_sheet)

\* The submission of the form the calls are made with: an expense.
StoreForms == { DespesaForm(60, "Lazer", "Não", "", "A Pagar") }

\* Changes a save of the transactions table asks for.
StoreChanges == { [valor |-> 75] }

\* lines 572-594 and 101-135: a submission with description and amount
\* filled in calls add_transaction, which appends the row
SubmitForm(username, f) ==
    /\ RowsStored < MaxRows
    /\ NextId(transactions_sheet) <= MaxId
    /\ transactions_sheet' = add_transaction(transactions_sheet, username, f)
    /\ call' = [op |-> "add_transaction", username |-> username, target |-> "new", ret |-> TRUE]
    /\ created' = created \cup {NextId(transactions_sheet)}
    /\ UNCHANGED <<goals_sheet, goals_df>>
    /\ UNCHANGED pageVars
    /\ UNCHANGED sessionVars

\* lines 174-214
DeleteTransaction(transaction_id, username) ==
    /\ transactions_sheet' =
           delete_transaction(transactions_sheet, transaction_id, username).sheet
    /\ call' = [op |-> "delete_transaction", username |-> username,
                target |-> Target(transactions_sheet, transaction_id, username),
                ret |-> delete_transaction(transactions_sheet, transaction_id, username).ret]
    /\ UNCHANGED <<goals_sheet, created, goals_df>>
    /\ UNCHANGED pageVars
    /\ UNCHANGED sessionVars

\* lines 216-265
UpdateTransaction(transaction_id, username, changes) ==
    /\ transactions_sheet' =
           update_transaction(transactions_sheet, transaction_id, username, changes).sheet
    /\ call' = [op |-> "update_transaction", username |-> username,
                target |-> Target(transactions_sheet, transaction_id, username),
                ret |-> update_transaction(transactions_sheet, transaction_id,
                                           username, changes).ret,
                named |-> DOMAIN changes]
    /\ UNCHANGED <<goals_sheet, created, goals_df>>
    /\ UNCHANGED pageVars
    /\ UNCHANGED sessionVars

\* Goal ids grow without limit too; add_goal stops at MaxGoalId.
MaxGoalId == MaxRows

\* Targets of the goals that are created.
GoalTargets == {50}

\* Amounts update_goal_progress is called with.
GoalAmounts == {150}

\* The current amount of a goal grows and falls without limit; the calls
\* stop adding to it when it would pass MaxAtual or fall below MinAtual.
MaxAtual == 150

MinAtual == 0 - MaxAtual

\* lines 1041-1044 and 293-308
AddGoal(username, valor_meta) ==
    /\ RowsStored < MaxRows
    /\ NextId(goals_sheet) <= MaxGoalId
    /\ goals_sheet' = add_goal(goals_sheet, username, valor_meta)
    /\ call' = [op |-> "add_goal", username |-> username, target |-> "new", ret |-> TRUE]
    /\ UNCHANGED <<transactions_sheet, created, goals_df>>
    /\ UNCHANGED pageVars
    /\ UNCHANGED sessionVars

\* lines 343-375
UpdateGoalProgress(goal_id, username, amount) ==
    /\ FindRow(goals_sheet, goal_id, username) # 0 =>
           /\ goals_sheet[FindRow(goals_sheet, goal_id, username)].valor_atual + amount <= MaxAtual
           /\ goals_sheet[FindRow(goals_sheet, goal_id, username)].valor_atual + amount >= MinAtual
    /\ goals_sheet' = update_goal_progress(goals_sheet, goal_id, username, amount).sheet
    /\ call' = [op |-> "update_goal_progress", username |-> username,
                target |-> Target(goals_sheet, goal_id, username),
                ret |-> update_goal_progress(goals_sheet, goal_id, username, amount).ret]
    /\ UNCHANGED <<transactions_sheet, created, goals_df>>
    /\ UNCHANGED pageVars
    /\ UNCHANGED sessionVars

\* lines 377-415
MarkGoalAsCompleted(goal_id, username) ==
    /\ goals_sheet' = mark_goal_as_completed(goals_sheet, goal_id, username).sheet
    /\ call' = [op |-> "mark_goal_as_completed", username |-> username,
                target |-> Target(goals_sheet, goal_id, username),
                ret |-> mark_goal_as_completed(goals_sheet, goal_id, username).ret]
    /\ UNCHANGED <<transactions_sheet, created, goals_df>>
    /\ UNCHANGED pageVars
    /\ UNCHANGED sessionVars

\* lines 417-444
DeleteGoal(goal_id, username) ==
    /\ goals_sheet' = delete_goal(goals_sheet, goal_id, username).sheet
    /\ call' = [op |-> "delete_goal", username |-> username,
                target |-> Target(goals_sheet, goal_id, username),
                ret |-> delete_goal(goals_sheet, goal_id, username).ret]
    /\ UNCHANGED <<transactions_sheet, created, goals_df>>
    /\ UNCHANGED pageVars
    /\ UNCHANGED sessionVars

\* Both worksheets hold their header row only.
InitStore ==
    /\ PagesIdle
    /\ StoreUntouched

NextStore ==
    \/ \E username \in Users, f \in StoreForms : SubmitForm(username, f)
    \/ \E id \in Ids(transactions_sheet), username \in Users : DeleteTransaction(id, username)
    \/ \E id \in Ids(transactions_sheet), username \in Users, changes \in StoreChanges :
           UpdateTransaction(id, username, changes)
    \/ \E username \in Users, valor_meta \in GoalTargets : AddGoal(username, valor_meta)
    \/ \E id \in Ids(goals_sheet), username \in Users, amount \in GoalAmounts :
           UpdateGoalProgress(id, username, amount)
    \/ \E id \in Ids(goals_sheet), username \in Users : MarkGoalAsCompleted(id, username)
    \/ \E id \in Ids(goals_sheet), username \in Users : DeleteGoal(id, username)

\* Any sequence of calls of the storage functions on behalf of two users.
SpecStore == InitStore /\ [][NextStore]_vars

----------------------------------------------------------------------------
(* What is claimed of ids and of owners *)

StoredIds(sheet) == {sheet[i].id : i \in DOMAIN sheet}

\* The step appended a row to the sheet.
Appended(before, after) == Len(after) = Len(before) + 1

LastRow(sheet) == sheet[Len(sheet)]

\* C14: over any sequence of add_transaction and delete_transaction calls,
\* the id add_transaction assigns is never the id of a transaction created
\* earlier, deleted ones included (ids are never reused after deletion).
C14_IdsNeverReused ==
    [][Appended(transactions_sheet, transactions_sheet') =>
           LastRow(transactions_sheet').id \notin created]_vars

\* The ids of the sheet are positive integers, no two alike.
DistinctPositiveIds(sheet) ==
    /\ \A i \in DOMAIN sheet : sheet[i].id \in Nat \ {0}
    /\ \A i, j \in DOMAIN sheet : i # j => sheet[i].id # sheet[j].id

\* id is 1 for a sheet without rows and otherwise one more than the largest
\* id stored in it.
LargestPlusOne(id, sheet) ==
    IF sheet = <<>> THEN id = 1
    ELSE /\ id - 1 \in StoredIds(sheet)
         /\ \A other \in StoredIds(sheet) : other < id

\* C15: after any sequence of add_transaction, update_transaction and
\* delete_transaction calls made one after another, the stored transactions
\* have pairwise distinct positive integer ids, and each add_transaction
\* assigned 1 to the first row of an empty sheet and otherwise the largest
\* stored id plus 1.
C15_DistinctIds ==
    [][/\ DistinctPositiveIds(transactions_sheet')
       /\ Appended(transactions_sheet, transactions_sheet') =>
              LargestPlusOne(LastRow(transactions_sheet').id, transactions_sheet)]_vars

\* A row was deleted and a row added after it: the new id is past the
\* largest one, not the number of rows.
C15_Witness ==
    /\ call.op = "add_transaction"
    /\ Len(transactions_sheet) = 2
    /\ transactions_sheet[1].id = 2
    /\ transactions_sheet[2].id = 3

\* C16 as written: add_goal assigns goal ids per owner: the new id is the
\* largest id among the goals of the same owner plus 1 (1 for the owner's
\* first goal), whatever the goals of other users.
C16_GoalIdPerOwner ==
    [][Appended(goals_sheet, goals_sheet') =>
           LargestPlusOne(LastRow(goals_sheet').id,
                          get_goals(goals_sheet, LastRow(goals_sheet').username))]_vars

\* C16 as the code has it: the new goal's id is the largest id among all
\* the goals of the sheet, whoever owns them, plus 1 (1 in an empty sheet).
C16_GoalIdGlobal ==
    [][Appended(goals_sheet, goals_sheet') =>
           LargestPlusOne(LastRow(goals_sheet').id, goals_sheet)]_vars

\* The first goal of a user follows the goal of another user.
C16_Witness ==
    /\ call.op = "add_goal"
    /\ Len(goals_sheet) = 2
    /\ goals_sheet[1].username # goals_sheet[2].username
    /\ goals_sheet[1].id = 1
    /\ goals_sheet[2].id = 2

\* C17: get_transactions(u) and get_goals(u) return only records owned by
\* u, and a call made on behalf of another user (adding, editing or deleting
\* that user's records) changes neither of them, hence no aggregation
\* computed from them.
C17_NoCrossUserEffect ==
    [][\A u \in Users :
           /\ \A i \in DOMAIN get_transactions(transactions_sheet', u) :
                  get_transactions(transactions_sheet', u)[i].username = u
           /\ \A i \in DOMAIN get_goals(goals_sheet', u) :
                  get_goals(goals_sheet', u)[i].username = u
           /\ call'.username # u =>
                  /\ get_transactions(transactions_sheet', u) =
                         get_transactions(transactions_sheet, u)
                  /\ get_goals(goals_sheet', u) = get_goals(goals_sheet, u)]_vars

\* bia deleted a transaction of hers while ana had one in the sheet.
C17_Witness ==
    /\ call.op = "delete_transaction"
    /\ call.username = "bia"
    /\ call.ret
    /\ get_transactions(transactions_sheet, "ana") # <<>>

Mutations ==
    {"delete_transaction", "update_transaction", "update_goal_progress",
     "mark_goal_as_completed", "delete_goal"}

\* The rows of the sheet that username does not own, in sheet order.
RowsOfOthers(sheet, username) == SelectSeq(sheet, LAMBDA row : row.username # username)

\* C18: a mutation called on behalf of user u (delete_transaction,
\* update_transaction, update_goal_progress, mark_goal_as_completed,
\* delete_goal) changes or removes only a row whose owner is u; when the
\* given id exists only on rows owned by other users, the call returns False
\* and the sheet is unchanged.
C18_MutationsOwnRowsOnly ==
    [][call'.op \in Mutations =>
           /\ RowsOfOthers(transactions_sheet', call'.username) =
                  RowsOfOthers(transactions_sheet, call'.username)
           /\ RowsOfOthers(goals_sheet', call'.username) =
                  RowsOfOthers(goals_sheet, call'.username)
           /\ call'.ret => call'.target = "own"
           /\ call'.target = "foreign" =>
                  /\ ~call'.ret
                  /\ transactions_sheet' = transactions_sheet
                  /\ goals_sheet' = goals_sheet]_vars

\* A delete was asked with the id of another user's row and refused.
C18_Witness ==
    /\ call.op = "delete_transaction"
    /\ call.target = "foreign"
    /\ ~call.ret
    /\ transactions_sheet # <<>>

----------------------------------------------------------------------------
(* render_transactions_table: saving the edits of the table *)

\* A save that stores the amount as typed.
AsTyped(x) == x

\* abs(x)
Abs(x) == IF x < 0 THEN 0 - x ELSE x

\* line 800: the amount as the table shows it, negative for an expense
ValorExibicao(row) == IF row.tipo = "despesa" THEN 0 - row.valor ELSE row.valor

\* lines 853-854: the amount to store for the amount typed in the table
ValorEditadoDb(valor) == Abs(valor)

\* The columns of the table that can be typed in and are compared on save.
EditableColumns ==
    {"descricao", "valor", "categoria", "status", "responsavel", "banco",
     "forma_recebimento", "recorrente", "data"}

\* lines 803-821: the row as the table shows it
DisplayRow(row) ==
    [k \in EditableColumns |-> IF k = "valor" THEN ValorExibicao(row) ELSE row[k]]

\* The row of the table after the user typed the cells of edit.
EditedRow(row, edit) ==
    [k \in EditableColumns |-> IF k \in DOMAIN edit THEN edit[k] ELSE DisplayRow(row)[k]]

\* lines 856-876: what is to be stored for a cell of the edited row
ToStore(edited_row, k) ==
    IF k = "valor" THEN ValorEditadoDb(edited_row[k]) ELSE edited_row[k]

\* lines 856-876: the changes of one edited row; a cell is a change when
\* what is to be stored differs from what get_transactions returned
TableChanges(row, edited_row) ==
    [key \in {k \in EditableColumns : ToStore(edited_row, k) # row[k]} |->
        ToStore(edited_row, key)]

\* lines 849-879, for one edited row of the user's table: update_transaction
\* is called only if something changed
SaveTableChanges(username, i, edit) ==
    /\ i \in DOMAIN transactions_sheet
    /\ transactions_sheet[i].username = username
    /\ LET row == transactions_sheet[i]
           changes == TableChanges(row, EditedRow(row, edit))
       IN  IF DOMAIN changes # {}
           THEN /\ transactions_sheet' =
                       update_transaction(transactions_sheet, row.id, username, changes).sheet
                /\ call' = [op |-> "update_transaction", username |-> username,
                            target |-> Target(transactions_sheet, row.id, username),
                            ret |-> update_transaction(transactions_sheet, row.id,
                                                       username, changes).ret,
                            named |-> DOMAIN changes]
           ELSE UNCHANGED <<transactions_sheet, call>>
    /\ UNCHANGED <<goals_sheet, created, goals_df>>
    /\ UNCHANGED pageVars
    /\ UNCHANGED sessionVars

\* Submissions of the form: expenses, recurring or not, and incomes, paid at
\* once or in instalments, all of amount 60.
EntryForms ==
    { DespesaForm(60, "Lazer", "Não", "", "A Pagar"),
      DespesaForm(60, "Moradia", "Sim", "3", "Pago"),
      ReceitaForm(60, "ana", "nubank", "Parcela Única", ""),
      ReceitaForm(60, "ana", "nubank", "2x", "[2024-01-10, 2024-02-10]") }

\* Cells typed in the table: amounts with either sign, a status, a payer.
TableEdits ==
    { [valor |-> 0 - 120], [valor |-> 0 - 60], [valor |-> 60],
      [status |-> "Pago"], [responsavel |-> "bia"] }

NextEntry ==
    \/ \E f \in EntryForms : SubmitForm("ana", f)
    \/ \E i \in 1..MaxRows, edit \in TableEdits : SaveTableChanges("ana", i, edit)

\* One user submitting the form and saving edits of the table, in any order.
SpecEntry == InitStore /\ [][NextEntry]_vars

\* C19: after any sequence of transactions created through the entry form
\* and amounts edited through the transactions table, no stored transaction
\* has a negative amount: the expense sign is for display only, and an
\* edited value is stored as its absolute value.
C19_NoNegativeAmount ==
    \A i \in DOMAIN transactions_sheet : transactions_sheet[i].valor >= 0

\* An expense whose amount was typed as -120 in the table (the form creates
\* amounts of 60 and no other edit gives 120) is stored with 120.
C19_Witness ==
    /\ call.op = "update_transaction"
    /\ call.ret
    /\ \E i \in DOMAIN transactions_sheet :
           /\ transactions_sheet[i].tipo = "despesa"
           /\ transactions_sheet[i].valor = 120

\* C20: after any sequence of form submissions and table edits, every stored
\* transaction has only the field group of its kind populated: an income row
\* has no recurring flag, recurrence count or status, and an expense row has
\* no payer, bank, payment plan or instalment dates.
C20_OneFieldGroup ==
    \A i \in DOMAIN transactions_sheet :
        LET row == transactions_sheet[i]
        IN  /\ row.tipo = "receita" =>
                   (row.recorrente = "" /\ row.vezes_recorrencia = "" /\ row.status = "")
            /\ row.tipo = "despesa" =>
                   (row.responsavel = "" /\ row.banco = "" /\ row.forma_recebimento = ""
                    /\ row.datas_parcelas_receita = "")

----------------------------------------------------------------------------
(* The goals of the planning page over any sequence of calls *)

\* Amounts update_goal_progress is called with: the function takes any
\* number, a deposit or a withdrawal, and checks neither its sign nor the
\* status of the goal.
GoalDeltas == {100, 0 - 100}

\* lines 1067-1070: the ids the page offers in "Marcar meta como Concluída"
goals_in_progress(sheet, username) ==
    LET shown == SelectSeq(get_goals(sheet, username),
                           LAMBDA row : row.status = "Em Progresso")
    IN  [i \in DOMAIN shown |-> shown[i].id]

NextGoals ==
    \/ \E username \in Users, valor_meta \in GoalTargets : AddGoal(username, valor_meta)
    \/ \E id \in Ids(goals_sheet), username \in Users, amount \in GoalDeltas :
           UpdateGoalProgress(id, username, amount)
    \/ \E id \in Ids(goals_sheet), username \in Users : MarkGoalAsCompleted(id, username)
    \/ \E id \in Ids(goals_sheet), username \in Users : DeleteGoal(id, username)

\* Any sequence of calls of the four goal functions on behalf of two users.
SpecGoals == InitStore /\ [][NextGoals]_vars

\* C21: in every state a sequence of add_goal, update_goal_progress,
\* mark_goal_as_completed and delete_goal reaches, a goal whose status is
\* "Concluída" has valor_atual equal to its valor_meta.
C21_CompletedAtTarget ==
    \A i \in DOMAIN goals_sheet :
        goals_sheet[i].status = "Concluída" =>
            goals_sheet[i].valor_atual = goals_sheet[i].valor_meta

\* C22: in every state a sequence of add_goal, update_goal_progress and
\* mark_goal_as_completed reaches, the valor_atual of every goal is at
\* least 0 (and a goal just created has 0 and "Em Progresso").
C22_CurrentNeverNegative ==
    /\ \A i \in DOMAIN goals_sheet : goals_sheet[i].valor_atual >= 0
    /\ (call.op = "add_goal" /\ goals_sheet # <<>>) =>
           /\ LastRow(goals_sheet).valor_atual = 0
           /\ LastRow(goals_sheet).status = "Em Progresso"

\* Row by row, no status went from "Concluída" back to "Em Progresso": the
\* sheet kept its rows and each status stayed or moved forward, or one row
\* in progress was appended, or one row was removed.
StatusOnlyForward(before, after) ==
    \/ /\ Len(after) = Len(before)
       /\ \A i \in DOMAIN before :
              \/ after[i].status = before[i].status
              \/ before[i].status = "Em Progresso" /\ after[i].status = "Concluída"
    \/ /\ Appended(before, after)
       /\ SubSeq(after, 1, Len(before)) = before
       /\ LastRow(after).status = "Em Progresso"
    \/ \E j \in DOMAIN before : after = DeleteRow(before, j)

\* C28: over any sequence of add_goal, update_goal_progress,
\* mark_goal_as_completed and delete_goal the status of a goal only moves
\* from "Em Progresso" to "Concluída", and every id the planning page offers
\* for completion is the id of a goal of the user that is "Em Progresso".
C28_StatusOnlyForward ==
    [][/\ StatusOnlyForward(goals_sheet, goals_sheet')
       /\ \A username \in Users :
              \A k \in DOMAIN goals_in_progress(goals_sheet', username) :
                  LET i == FindRow(goals_sheet', goals_in_progress(goals_sheet', username)[k],
                                   username)
                  IN  i # 0 /\ goals_sheet'[i].status = "Em Progresso"]_vars

\* A goal already completed was the target of a successful call of
\* update_goal_progress and is still completed, while another goal is
\* offered for completion.
C28_Witness ==
    /\ call.op = "update_goal_progress"
    /\ call.ret
    /\ \E i \in DOMAIN goals_sheet :
           /\ goals_sheet[i].status = "Concluída"
           /\ goals_sheet[i].valor_atual # goals_sheet[i].valor_meta
    /\ \E username \in Users : goals_in_progress(goals_sheet, username) # <<>>

----------------------------------------------------------------------------
(* Deletions *)

\* One row of the caller left the sheet; the rows above it and the rows
\* below it are those of before, in the same order.
OneRowRemoved(before, after, username) ==
    /\ Len(after) = Len(before) - 1
    /\ \E j \in DOMAIN before :
           /\ before[j].username = username
           /\ \A i \in DOMAIN after : i < j => after[i] = before[i]
           /\ \A i \in DOMAIN after : i >= j => after[i] = before[i + 1]

----------------------------------------------------------------------------
(* The pages computed twice over the same list *)

\* Rows of the list the pages are computed over twice: paid expenses of two
\* categories with equal totals, a recurring expense and a row without a
\* date (on which the projection raises), an income paid at once and one
\* paid in instalments.
RerunRows ==
    { Despesa(D(2024, 1, 10), 60, "Lazer", "Pago", "Não", 0),
      Despesa(D(2024, 2, 5), 60, "Moradia", "Pago", "Não", 0),
      Despesa(D(2024, 1, 10), 100, "Moradia", "A Pagar", "Sim", 3),
      Despesa(NaT, 60, "Lazer", "A Pagar", "Não", 0),
      Receita(D(2024, 1, 10), 60, "ana", "nubank", "Parcela Única", <<>>),
      Receita(D(2024, 1, 15), 300, "bia", "itau", "3x",
              <<D(2024, 2, 1), D(2024, 3, 1), D(2024, 4, 1)>>) }

RerunLists == SeqsUpTo(RerunRows, MaxTx)

\* Everything a page computes.
Outputs ==
    [pc |-> pc, idx |-> idx, projection_data |-> projection_data,
     gastos_por_categoria |-> gastos_por_categoria,
     receitas_por_responsavel |-> receitas_por_responsavel,
     receitas_por_banco |-> receitas_por_banco,
     summary |-> summary, monthly_summary |-> monthly_summary]

\* The page has been computed to its end: shown, or stopped by an exception.
PageEnded == pc \in {"done", "raised", "empty"}

\* lines 1162-1171: the page of the sidebar selection is the one computed;
\* the selection stays as it is when the script is run again
Selected(page) == IF previous = <<>> THEN TRUE ELSE previous[1].page = page

\* Streamlit runs the script again from its first line on any interaction:
\* the same page is computed a second time, over the same list at the same
\* instant. What the first run showed is kept for comparison.
Rerun ==
    /\ PageEnded
    /\ previous = <<>>
    /\ previous' = << [page |-> IF summary # <<>> THEN "overview" ELSE "analysis",
                       pc |-> pc, idx |-> idx, projection_data |-> projection_data,
                       gastos_por_categoria |-> gastos_por_categoria,
                       receitas_por_responsavel |-> receitas_por_responsavel,
                       receitas_por_banco |-> receitas_por_banco,
                       summary |-> summary, monthly_summary |-> monthly_summary] >>
    /\ pc' = "start"
    /\ UNCHANGED <<now, df_all_transactions, idx, projection_data, gastos_por_categoria,
                   receitas_por_responsavel, receitas_por_banco, summary, monthly_summary>>
    /\ UNCHANGED storeVars
    /\ UNCHANGED <<users_sheet, session_state, inflight>>

\* One transaction and one goal are stored when the pages are computed.
InitRerun ==
    /\ now \in AnalysisNows
    /\ df_all_transactions \in RerunLists
    /\ pc = "start"
    /\ idx = 0
    /\ projection_data = <<>>
    /\ gastos_por_categoria = <<>>
    /\ receitas_por_responsavel = <<>>
    /\ receitas_por_banco = <<>>
    /\ summary = <<>>
    /\ monthly_summary = <<>>
    /\ transactions_sheet = add_transaction(<<>>, "ana", DespesaForm(60, "Lazer", "Não", "", "A Pagar"))
    /\ goals_sheet = add_goal(<<>>, "ana", 50)
    /\ call = NoCall
    /\ created = {1}
    /\ goals_df = <<>>
    /\ SessionFresh

NextRerun ==
    \/ Selected("analysis") /\ AnalysisEmpty
    \/ Selected("analysis") /\ RenderBreakdowns
    \/ Selected("analysis") /\ StartProjection
    \/ Selected("analysis") /\ ProjectRow
    \/ Selected("analysis") /\ FinishProjection
    \/ Selected("overview") /\ RenderOverview
    \/ Rerun

\* A page computed, and computed once more over the same list.
SpecRerun == InitRerun /\ [][NextRerun]_vars

----------------------------------------------------------------------------
(* A transaction written and read back *)

\* The digits a recurrence count is written with.
CountDigits == <<"1", "2", "3", "4", "5", "6", "7", "8", "9">>

\* line 163: pd.to_numeric(cell, errors='coerce'), fillna(0), astype(int):
\* the number the cell holds, and 0 for an empty cell or any other text
ToCount(cell) ==
    IF \E n \in DOMAIN CountDigits : CountDigits[n] = cell
    THEN CHOOSE n \in DOMAIN CountDigits : CountDigits[n] = cell
    ELSE 0

\* lines 141-166: get_transactions with the conversion of the recurrence
\* count; the other cells compared here are returned as they are stored
ReadTransactions(sheet, username) ==
    [i \in DOMAIN get_transactions(sheet, username) |->
        [get_transactions(sheet, username)[i] EXCEPT
            !.vezes_recorrencia = ToCount(get_transactions(sheet, username)[i].vezes_recorrencia)]]

\* The row read back has the payment plan, instalment dates, recurring flag,
\* recurrence count and status of the submission f.
SamePlan(f, row) ==
    /\ row.forma_recebimento = f.forma_recebimento
    /\ row.datas_parcelas_receita = f.datas_parcelas_receita
    /\ row.recorrente = f.recorrente
    /\ row.vezes_recorrencia = ToCount(f.vezes_recorrencia)
    /\ row.status = f.status

\* C25: a transaction add_transaction wrote into a sheet with the fourteen
\* columns get_transactions expects is read back by get_transactions for the
\* same user with the payment plan, instalment dates, recurring flag,
\* recurrence count and status that were passed to add_transaction.
C25_RoundTrip ==
    [][(call'.op = "add_transaction" /\ Appended(transactions_sheet, transactions_sheet')) =>
          \E f \in EntryForms :
              /\ transactions_sheet' = add_transaction(transactions_sheet, call'.username, f)
              /\ SamePlan(f, LastRow(ReadTransactions(transactions_sheet', call'.username)))]_vars

----------------------------------------------------------------------------
(* Updates of transactions *)

\* Changes update_transaction is called with: a column of the sheet, a
\* column the sheet does not have, and both together.
UpdateChanges ==
    { [status |-> "Pago"],
      [observacao |-> "sem coluna"],
      [status |-> "Pago", observacao |-> "sem coluna"] }

\* Cells typed in the table before a save: a status, an amount.
SavedEdits == { [status |-> "Pago"], [valor |-> 0 - 120] }

NextUpdate ==
    \/ \E username \in Users, f \in StoreForms : SubmitForm(username, f)
    \/ \E id \in Ids(transactions_sheet), username \in Users, changes \in UpdateChanges :
           UpdateTransaction(id, username, changes)
    \/ \E username \in Users, i \in 1..MaxRows, edit \in SavedEdits :
           SaveTableChanges(username, i, edit)

\* Two users adding transactions, calling update_transaction and saving
\* edits of the table.
SpecUpdate == InitStore /\ [][NextUpdate]_vars

\* The columns of the row that identify it, its owner and its kind.
KeyColumns == {"id", "username", "tipo"}

\* C26: update_transaction(id, u, changes) writes only the one row with that
\* id and owner, and in it only columns that changes names and the header
\* has; it returns False and writes nothing when no row matches or no named
\* column is in the header. The changes a save of the table asks for never
\* name the id, the owner or the kind.
C26_UpdateFrame ==
    [][/\ call'.op = "update_transaction" =>
              /\ Len(transactions_sheet') = Len(transactions_sheet)
              /\ goals_sheet' = goals_sheet
              /\ call'.ret = (call'.target = "own" /\ call'.named \cap Range(TxHeader) # {})
              /\ IF call'.ret
                 THEN \E i \in DOMAIN transactions_sheet :
                          /\ transactions_sheet[i].username = call'.username
                          /\ \A j \in DOMAIN transactions_sheet :
                                 j # i => transactions_sheet'[j] = transactions_sheet[j]
                          /\ \A column \in Range(TxHeader) \ call'.named :
                                 transactions_sheet'[i][column] = transactions_sheet[i][column]
                 ELSE transactions_sheet' = transactions_sheet
       /\ \A i \in DOMAIN transactions_sheet, edit \in TableEdits :
              DOMAIN TableChanges(transactions_sheet[i],
                                  EditedRow(transactions_sheet[i], edit)) \cap KeyColumns = {}]_vars

\* A call that named the status and a column the sheet does not have has
\* written the status of the caller's row, while the row of the other user
\* is as it was created.
C26_Witness ==
    /\ call.op = "update_transaction"
    /\ call.ret
    /\ call.named = {"status", "observacao"}
    /\ Len(transactions_sheet) = 2
    /\ \E i, j \in DOMAIN transactions_sheet :
           /\ transactions_sheet[i].username = call.username
           /\ transactions_sheet[i].status = "Pago"
           /\ transactions_sheet[j].username # call.username
           /\ transactions_sheet[j].status = ""

----------------------------------------------------------------------------
(* add_transaction and add_goal called from two sessions at once *)

\* Each session runs the script in a thread of its own, and a call of
\* add_transaction or add_goal is two requests to the spreadsheet: the read
\* of all records, from which next_id is computed, and append_row. Requests
\* of different sessions reach the spreadsheet in any order.

\* lines 109-113: the session reads the sheet and computes next_id
ReadForAddTransaction(s, username) ==
    /\ inflight[s] = NoRead
    /\ RowsStored + Cardinality({t \in Sessions : inflight[t] # NoRead}) < MaxRows
    /\ NextId(transactions_sheet) <= MaxId
    /\ inflight' = [inflight EXCEPT ![s] = [op |-> "add_transaction", username |-> username,
                                            next_id |-> NextId(transactions_sheet)]]
    /\ UNCHANGED <<users_sheet, session_state, previous>>
    /\ UNCHANGED storeVars
    /\ UNCHANGED pageVars

\* lines 115-131: the row is appended with the next_id computed before
AppendTransaction(s, f) ==
    /\ inflight[s].op = "add_transaction"
    /\ transactions_sheet' =
           Append(transactions_sheet,
                  SheetRow(TxHeader, TransactionValues(inflight[s].next_id,
                                                       inflight[s].username, f)))
    /\ call' = [op |-> "add_transaction", username |-> inflight[s].username,
                target |-> "new", ret |-> TRUE]
    /\ created' = created \cup {inflight[s].next_id}
    /\ inflight' = [inflight EXCEPT ![s] = NoRead]
    /\ UNCHANGED <<goals_sheet, goals_df>>
    /\ UNCHANGED <<users_sheet, session_state, previous>>
    /\ UNCHANGED pageVars

\* lines 296-300
ReadForAddGoal(s, username) ==
    /\ inflight[s] = NoRead
    /\ RowsStored + Cardinality({t \in Sessions : inflight[t] # NoRead}) < MaxRows
    /\ NextId(goals_sheet) <= MaxGoalId
    /\ inflight' = [inflight EXCEPT ![s] = [op |-> "add_goal", username |-> username,
                                            next_id |-> NextId(goals_sheet)]]
    /\ UNCHANGED <<users_sheet, session_state, previous>>
    /\ UNCHANGED storeVars
    /\ UNCHANGED pageVars

\* lines 302-304
AppendGoal(s, valor_meta) ==
    /\ inflight[s].op = "add_goal"
    /\ goals_sheet' = Append(goals_sheet,
                             GoalRow(inflight[s].next_id, inflight[s].username, valor_meta,
                                     0, "Em Progresso"))
    /\ call' = [op |-> "add_goal", username |-> inflight[s].username,
                target |-> "new", ret |-> TRUE]
    /\ inflight' = [inflight EXCEPT ![s] = NoRead]
    /\ UNCHANGED <<transactions_sheet, created, goals_df>>
    /\ UNCHANGED <<users_sheet, session_state, previous>>
    /\ UNCHANGED pageVars

NextSessions ==
    \/ \E s \in Sessions, username \in Users : ReadForAddTransaction(s, username)
    \/ \E s \in Sessions, f \in StoreForms : AppendTransaction(s, f)
    \/ \E s \in Sessions, username \in Users : ReadForAddGoal(s, username)
    \/ \E s \in Sessions, valor_meta \in GoalTargets : AppendGoal(s, valor_meta)
    \/ \E id \in Ids(transactions_sheet), username \in Users : DeleteTransaction(id, username)
    \/ \E id \in Ids(goals_sheet), username \in Users : DeleteGoal(id, username)

\* Two sessions adding and deleting transactions and goals, their requests
\* interleaved in any order.
SpecSessions == InitStore /\ [][NextSessions]_vars

\* C27: when two calls of add_transaction, or two calls of add_goal, from
\* two sessions interleave, both reading the sheet before either appends,
\* the two new rows still get distinct ids: no two rows of a sheet ever
\* have the same id.
C27_DistinctIdsInterleaved ==
    /\ \A i, j \in DOMAIN transactions_sheet :
           i # j => transactions_sheet[i].id # transactions_sheet[j].id
    /\ \A i, j \in DOMAIN goals_sheet :
           i # j => goals_sheet[i].id # goals_sheet[j].id

----------------------------------------------------------------------------
(* The worksheet 'users', registration, login and logout *)

\* Names typed in the registration and login forms: two names and a name
\* made of digits.
UserNames == Users \cup {"123"}

\* Names that are numerals.
Numerals == {"123"}

\* Passwords typed in the forms.
Passwords == {"senha1", "senha2"}

\* A value of a record read from a sheet: a string or a number.
Text(cell) == [type |-> "str", text |-> cell]

\* get_all_records() turns every cell whose text is a numeral into a number
\* (this is what lets add_transaction take df_temp['id'].max() + 1, lines
\* 112-113); any other cell is returned as the string it holds.
Numericise(cell) ==
    IF cell \in Numerals THEN [type |-> "int", text |-> cell] ELSE Text(cell)

\* lines 52-54: the SHA-256 digest of the password, in hexadecimal; distinct
\* passwords of the forms have distinct digests
make_hashes(password) ==
    CASE password = "senha1" -> "e3c0a1"
      [] password = "senha2" -> "7b52f9"
      [] OTHER -> "d41d8c"

\* lines 56-58
check_hashes(password, hashed_text) == make_hashes(password) = hashed_text

\* lines 70-71 and 89: the rows whose username, as get_all_records returns
\* it, equals the name given, a string
UserRows(sheet, username) ==
    SelectSeq(sheet, LAMBDA row : Numericise(row.username) = Text(username))

\* add_user(username, password): the sheet after the call and the value
\* returned
add_user(sheet, username, password) ==
    IF sheet # <<>> /\ UserRows(sheet, username) # <<>>
    THEN [sheet |-> sheet, ret |-> FALSE]
    ELSE [sheet |-> Append(sheet, [username |-> username,
                                   password |-> make_hashes(password)]),
          ret |-> TRUE]

\* A check of the password against the hash of any row of the sheet.
verify_user_any_row(sheet, username, password) ==
    \E i \in DOMAIN sheet : check_hashes(password, sheet[i].password)

\* verify_user(username, password)
verify_user(sheet, username, password) ==
    IF sheet = <<>> THEN FALSE
    ELSE IF UserRows(sheet, username) # <<>>
    THEN check_hashes(password, UserRows(sheet, username)[1].password)
    ELSE FALSE

\* Largest number of rows of the worksheet 'users'.
MaxUsers == 3

\* lines 1136-1144: "Registrar Nova Conta" on the login page, with all three
\* fields filled in; add_user is called when the two passwords agree
Register(new_username, new_password, confirm_password) ==
    /\ ~session_state.logged_in
    /\ Len(users_sheet) < MaxUsers
    /\ IF new_password # confirm_password
       THEN UNCHANGED <<users_sheet, call>>
       ELSE /\ users_sheet' = add_user(users_sheet, new_username, new_password).sheet
            /\ call' = [op |-> "add_user", username |-> new_username, target |-> "",
                        ret |-> add_user(users_sheet, new_username, new_password).ret]
    /\ UNCHANGED <<session_state, inflight, previous>>
    /\ UNCHANGED <<transactions_sheet, goals_sheet, created, goals_df>>
    /\ UNCHANGED pageVars

\* lines 1119-1127: "Entrar" on the login page
Login(username, password) ==
    /\ ~session_state.logged_in
    /\ call' = [op |-> "verify_user", username |-> username, target |-> "",
                ret |-> verify_user(users_sheet, username, password),
                password |-> password]
    /\ session_state' = IF verify_user(users_sheet, username, password)
                        THEN [logged_in |-> TRUE, username |-> username]
                        ELSE session_state
    /\ UNCHANGED <<users_sheet, inflight, previous>>
    /\ UNCHANGED <<transactions_sheet, goals_sheet, created, goals_df>>
    /\ UNCHANGED pageVars

\* lines 1147-1168: the script run of a logged-in session fetches the
\* transactions of st.session_state['username'] and draws the selected page
\* over them
RenderPage ==
    /\ session_state.logged_in
    /\ df_all_transactions' = get_transactions(transactions_sheet, session_state.username)
    /\ pc' = "page"
    /\ UNCHANGED <<now, idx, projection_data, gastos_por_categoria, receitas_por_responsavel,
                   receitas_por_banco, summary, monthly_summary>>
    /\ UNCHANGED storeVars
    /\ UNCHANGED sessionVars

\* lines 1171-1175: "Sair"; the script runs again and draws the login page
Logout ==
    /\ session_state.logged_in
    /\ session_state' = [logged_in |-> FALSE, username |-> "None"]
    /\ df_all_transactions' = <<>>
    /\ pc' = "idle"
    /\ UNCHANGED <<now, idx, projection_data, gastos_por_categoria, receitas_por_responsavel,
                   receitas_por_banco, summary, monthly_summary>>
    /\ UNCHANGED storeVars
    /\ UNCHANGED <<users_sheet, inflight, previous>>

\* Nobody is registered or logged in; each of the two users has stored one
\* transaction.
InitAccounts ==
    /\ PagesIdle
    /\ transactions_sheet =
           add_transaction(add_transaction(<<>>, "ana", DespesaForm(60, "Lazer", "Não", "", "A Pagar")),
                           "bia", DespesaForm(60, "Lazer", "Não", "", "A Pagar"))
    /\ goals_sheet = <<>>
    /\ call = NoCall
    /\ created = {1, 2}
    /\ goals_df = <<>>
    /\ SessionFresh

NextAccounts ==
    \/ \E new_username \in UserNames, new_password \in Passwords, confirm_password \in Passwords :
           Register(new_username, new_password, confirm_password)
    \/ \E username \in UserNames, password \in Passwords : Login(username, password)
    \/ RenderPage
    \/ Logout

\* One browser session registering accounts, logging in and out.
SpecAccounts == InitAccounts /\ [][NextAccounts]_vars

\* C30: after any sequence of add_user calls made one after another the
\* users sheet has at most one row per username.
C30_OneRowPerUsername ==
    \A i, j \in DOMAIN users_sheet :
        i # j => users_sheet[i].username # users_sheet[j].username

\* C29: whenever the session is logged in, its username is the name of the
\* last call of verify_user, which succeeded against the password hash
\* stored for that name; a page is computed only in a logged-in session and
\* over exactly the rows of its username; a logout leaves logged_in False
\* and username None, and a failed login changes neither.
C29_SessionInvariant ==
    [][/\ session_state'.logged_in =>
              /\ session_state'.username \in UserNames
              /\ call'.op = "verify_user"
              /\ call'.ret
              /\ call'.username = session_state'.username
              /\ \E i \in DOMAIN users_sheet' :
                     /\ users_sheet'[i].username = session_state'.username
                     /\ users_sheet'[i].password = make_hashes(call'.password)
       /\ ~session_state'.logged_in => session_state'.username = "None"
       /\ pc' = "page" =>
              /\ session_state'.logged_in
              /\ \A i \in DOMAIN df_all_transactions' :
                     df_all_transactions'[i].username = session_state'.username
              /\ Len(df_all_transactions') =
                     Cardinality({i \in DOMAIN transactions_sheet' :
                                     transactions_sheet'[i].username = session_state'.username})
       /\ (call'.op = "verify_user" /\ ~call'.ret) => session_state' = session_state]_vars

\* After a failed login and a successful one the session of bia shows her
\* transaction, while ana is registered too.
C29_Witness ==
    /\ session_state = [logged_in |-> TRUE, username |-> "bia"]
    /\ pc = "page"
    /\ Len(df_all_transactions) = 1
    /\ \E i \in DOMAIN users_sheet : users_sheet[i].username = "ana"

====
